---- MODULE Spec2Model ----
(***************************************************************************)
(* esp32-c3-basics.ino: setup() once, then loop() forever, on one thread.  *)
(* The model follows the sketch statement by statement (pc is the place of *)
(* the single thread of control).  The PubSubClient session and the WiFi   *)
(* link are the environment: the broker accepts or refuses a handshake,    *)
(* accepts or refuses a subscribe or a publish, delivers at most one       *)
(* inbound message per mqttClient.loop(), and may drop the session between *)
(* any two statements of the sketch.                                       *)
(*                                                                         *)
(* Serial output is a one-way sink; only the line echoed by                *)
(* mqtt_subscribe_callback is kept (serial).                               *)
(***************************************************************************)
EXTENDS Integers, Sequences, FiniteSets, TLC

\* ---------------------------------------------------------------- constants
MQTT_CONNECT_INTERVAL == 10000
LOOP_INTERVAL == 250
LOOP_COUNTER_ACTION_VALUE == 0
LOOP_COUNTER_RESET_VALUE == 240
MQTT_PUB_TOPIC_TEMPERATURE == "/Temperature"
MQTT_SUB_TOPIC_RGB_LED_RED == "/RGB-Led/Red"
MQTT_SUB_TOPIC_RGB_LED_GREEN == "/RGB-Led/Green"
MQTT_SUB_TOPIC_RGB_LED_BLUE == "/RGB-Led/Blue"
\* int8_t temperature
INT8_MIN == -128
INT8_MAX == 127
\* char szTemperature[4]
SzTemperatureSize == 4
\* for(unsigned int i=0; i<3; i++)
RGBLedTopicCount == 3

\* ------------------------------------------------------------------- bounds
\* longest inbound payload the environment sends
MaxPayloadLen == 2
\* session drops by the broker during one call of mqtt_reconnect()
MaxDrops == 1

\* ------------------------------------------------------------------ helpers
Min(a, b) == IF a < b THEN a ELSE b

\* const char* aszRGBLedTopics[3], indexed from 0
aszRGBLedTopics(k) ==
    CASE k = 0 -> MQTT_SUB_TOPIC_RGB_LED_RED
      [] k = 1 -> MQTT_SUB_TOPIC_RGB_LED_GREEN
      [] OTHER -> MQTT_SUB_TOPIC_RGB_LED_BLUE

\* WiFi.getHostname(): the node's name, fixed for one device
WiFiGetHostname == "esp32c3-node"

\* snprintf(szMqttTopic, 128, "%s%s", WiFi.getHostname(), suffix): the
\* concatenation, kept as the pair of its two parts
Topic(suffix) == <<WiFiGetHostname, suffix>>

CommandTopics == { Topic(aszRGBLedTopics(k)) : k \in 0..(RGBLedTopicCount - 1) }

\* topics no subscribe of this node asks for
ForeignTopics == { Topic(MQTT_PUB_TOPIC_TEMPERATURE), <<"other-node", MQTT_SUB_TOPIC_RGB_LED_RED>> }

\* payload bytes the environment sends: '0', '1', 'x'
Bytes == {48, 49, 120}
Payloads == UNION { [1..n -> Bytes] : n \in 0..MaxPayloadLen }
Messages == [topic : CommandTopics \cup ForeignTopics, payload : Payloads]

\* the three indicator channels (PIN_RGB_LED_RED, _GREEN, _BLUE)
Channels == {"Red", "Green", "Blue"}

\* values temperatureRead() is sampled at in the control loop
Temps == {INT8_MIN, -100, -1, 0, INT8_MAX}
NoTemp == INT8_MAX + 1

\* ------------------------------------------------- mqtt_publish's encoding
\* conversion of the promoted argument by %hhi (to signed char)
ToInt8(n) == ((n - INT8_MIN) % (2 * (INT8_MAX + 1))) + INT8_MIN

RECURSIVE FormatNat(_)
FormatNat(n) ==
    IF n < 10 THEN <<48 + n>>
    ELSE Append(FormatNat(n \div 10), 48 + (n % 10))

\* the characters printf's %i produces: '-' and the decimal digits
FormatInt(n) == IF n < 0 THEN <<45>> \o FormatNat(-n) ELSE FormatNat(n)

\* snprintf(buf, size, ...): at most size-1 characters, then the terminator
Snprintf(size, chars) == SubSeq(chars, 1, Min(Len(chars), size - 1))

\* what mqtt_publish hands to mqttClient.publish as the payload
EncodeTemperature(t) == Snprintf(SzTemperatureSize, FormatInt(ToInt8(t)))

\* --------------------------------------------------- the callback's echo
\* for (int i=0;i<length;i++) Serial.print((char)payload[i]);
RECURSIVE EchoBytes(_, _, _)
EchoBytes(payload, k, length) ==
    IF k < length THEN <<payload[k + 1]>> \o EchoBytes(payload, k + 1, length)
    ELSE <<>>

VARIABLES
    pc,            \* the place of the thread of control
    loop_counter,  \* static uint64_t loop_counter
    temperature,   \* the sample of the current paced pass (NoTemp: none)
    i,             \* index of the subscribe loop in mqtt_reconnect
    session,       \* the broker session: "Disconnected" | "Connected"
    subs,          \* topics the broker holds a subscription for
    wifi,          \* TRUE when the link is up
    leds,          \* level of each indicator pin
    callback,      \* TRUE once mqtt_setup registered mqtt_subscribe_callback
    msg,           \* <<m>>: the inbound message of this iteration's dispatch
    ledsBefore,    \* <<l>>: the pin levels when that dispatch started
    serial,        \* payload bytes the callback echoed in this iteration
    dropped,       \* the broker dropped the session after the sketch last looked
    drops,         \* drops during the current call of mqtt_reconnect
    hs,            \* last handshake of this iteration's call: none|failed|ok
    waited,        \* ms of backoff delay since that handshake
    subsInCall,    \* subscribe attempts per topic in this iteration's call
    subsSinceHs,   \* subscribe attempts per topic since the last accepted handshake
    pubs,          \* publish attempts of this iteration
    serviced,      \* calls of mqttClient.loop() in this iteration
    hostname,      \* what WiFi.getHostname() returns (NoHost before WiFi.mode)
    clientId,      \* the session name of the last handshake
    asked,         \* topics passed to subscribe since the last accepted handshake
    slept,         \* ms of delay(LOOP_INTERVAL) since the last paced pass began
    reported       \* the temperature the paced pass printed (NoTemp: none)

vars == <<pc, loop_counter, temperature, i, session, subs, wifi, leds, callback,
          msg, ledsBefore, serial, dropped, drops, hs, waited, subsInCall,
          subsSinceHs, pubs, serviced, hostname, clientId, asked, slept, reported>>

hwVars == <<wifi, leds, callback>>
dispVars == <<msg, ledsBefore, serial>>
callVars == <<drops, hs, waited, subsInCall, subsSinceHs>>
auxVars == <<hostname, clientId, asked, slept, reported>>

\* WiFi.getHostname() before the WiFi interface exists
NoHost == ""

\* snprintf(szMqttTopic, sizeof(szMqttTopic), "%s%s", WiFi.getHostname(), suffix)
SzMqttTopic(suffix) == <<hostname, suffix>>

NoAttempts == [t \in CommandTopics |-> 0]

SetupPcs == {"setup_gpio", "setup_wifi", "setup_mqtt"}
ReconnectPcs == {"rc_connect", "rc_delay", "rc_sub", "rc_while"}

Init ==
    /\ pc = "setup_gpio"
    /\ loop_counter = 0
    /\ temperature = NoTemp
    /\ i = 0
    /\ session = "Disconnected"
    /\ subs = {}
    /\ wifi = FALSE
    /\ leds = [c \in Channels |-> "FLOAT"]
    /\ callback = FALSE
    /\ msg = <<>>
    /\ ledsBefore = <<>>
    /\ serial = <<>>
    /\ dropped = FALSE
    /\ drops = 0
    /\ hs = "none"
    /\ waited = 0
    /\ subsInCall = NoAttempts
    /\ subsSinceHs = NoAttempts
    /\ pubs = <<>>
    /\ serviced = 0
    /\ hostname = NoHost
    /\ clientId = NoHost
    /\ asked = {}
    /\ slept = 0
    /\ reported = NoTemp

\* -------------------------------------------------------------------- setup
\* a setup() that goes from gpio_setup() straight to mqtt_setup()
GpioSetup_SkipWifi ==
    /\ pc = "setup_gpio"
    /\ leds' = [c \in Channels |-> "HIGH"]
    /\ pc' = "setup_mqtt"
    /\ UNCHANGED <<loop_counter, temperature, i, session, subs, wifi, callback,
                   dropped, pubs, serviced>>
    /\ UNCHANGED dispVars
    /\ UNCHANGED callVars
    /\ UNCHANGED auxVars

\* gpio_setup(): the three indicator pins are outputs, driven HIGH (off)
GpioSetup ==
    /\ pc = "setup_gpio"
    /\ leds' = [c \in Channels |-> "HIGH"]
    /\ pc' = "setup_wifi"
    /\ UNCHANGED <<loop_counter, temperature, i, session, subs, wifi, callback,
                   dropped, pubs, serviced>>
    /\ UNCHANGED dispVars
    /\ UNCHANGED callVars
    /\ UNCHANGED auxVars

\* a wifi_setup() that stops the program when autoConnect fails
WifiSetup_HaltOnFailure ==
    /\ pc = "setup_wifi"
    /\ \E ok \in BOOLEAN :
         /\ wifi' = ok
         /\ pc' = IF ok THEN "setup_mqtt" ELSE "halt"
    /\ UNCHANGED <<loop_counter, temperature, i, session, subs, leds, callback,
                   dropped, pubs, serviced>>
    /\ UNCHANGED dispVars
    /\ UNCHANGED callVars
    /\ hostname' = WiFiGetHostname
    /\ UNCHANGED <<clientId, asked, slept, reported>>

\* wifi_setup(): WiFi.mode(WIFI_STA), then autoConnect (with the provisioning
\* fallback) succeeds or fails; either way wifi_setup() returns
WifiSetup ==
    /\ pc = "setup_wifi"
    /\ \E ok \in BOOLEAN : wifi' = ok
    /\ pc' = "setup_mqtt"
    /\ UNCHANGED <<loop_counter, temperature, i, session, subs, leds, callback,
                   dropped, pubs, serviced>>
    /\ UNCHANGED dispVars
    /\ UNCHANGED callVars
    /\ hostname' = WiFiGetHostname
    /\ UNCHANGED <<clientId, asked, slept, reported>>

\* mqtt_setup(): setServer, setCallback
MqttSetup ==
    /\ pc = "setup_mqtt"
    /\ callback' = TRUE
    /\ pc' = "loop_top"
    /\ UNCHANGED <<loop_counter, temperature, i, session, subs, wifi, leds,
                   dropped, pubs, serviced>>
    /\ UNCHANGED dispVars
    /\ UNCHANGED callVars
    /\ UNCHANGED auxVars

\* --------------------------------------------------------------------- loop
\* a loop() whose service call is gated by the paced branch
LoopTop_GatedService ==
    /\ pc = "loop_top"
    /\ IF loop_counter = LOOP_COUNTER_ACTION_VALUE
       THEN /\ \E t \in Temps : temperature' = t /\ reported' = t
            /\ slept' = 0
            /\ pc' = "check"
       ELSE /\ temperature' = temperature
            /\ UNCHANGED <<slept, reported>>
            /\ pc' = "count"
    /\ UNCHANGED <<loop_counter, i, session, subs, dropped, pubs, serviced>>
    /\ UNCHANGED hwVars
    /\ UNCHANGED dispVars
    /\ UNCHANGED callVars
    /\ UNCHANGED <<hostname, clientId, asked>>

\* if(loop_counter == LOOP_COUNTER_ACTION_VALUE){ sample; report; ... }
LoopTop ==
    /\ pc = "loop_top"
    /\ IF loop_counter = LOOP_COUNTER_ACTION_VALUE
       THEN /\ \E t \in Temps : temperature' = t /\ reported' = t
            /\ slept' = 0
            /\ pc' = "check"
       ELSE /\ temperature' = temperature
            /\ UNCHANGED <<slept, reported>>
            /\ pc' = "service"
    /\ UNCHANGED <<loop_counter, i, session, subs, dropped, pubs, serviced>>
    /\ UNCHANGED hwVars
    /\ UNCHANGED dispVars
    /\ UNCHANGED callVars
    /\ UNCHANGED <<hostname, clientId, asked>>

\* a loop() that publishes without looking at the session
LoopCheck_NoReconnect ==
    /\ pc = "check"
    /\ pc' = "publish"
    /\ dropped' = FALSE
    /\ UNCHANGED <<loop_counter, temperature, i, session, subs, pubs, serviced>>
    /\ UNCHANGED hwVars
    /\ UNCHANGED dispVars
    /\ UNCHANGED callVars
    /\ UNCHANGED auxVars

\* a loop() that gives the cycle up when the session is down
LoopCheck_SkipCycle ==
    /\ pc = "check"
    /\ pc' = IF session # "Connected" THEN "service" ELSE "publish"
    /\ dropped' = FALSE
    /\ UNCHANGED <<loop_counter, temperature, i, session, subs, pubs, serviced>>
    /\ UNCHANGED hwVars
    /\ UNCHANGED dispVars
    /\ UNCHANGED callVars
    /\ UNCHANGED auxVars

\* if(!mqttClient.connected()){ mqtt_reconnect(); }
LoopCheck ==
    /\ pc = "check"
    /\ pc' = IF session # "Connected" THEN "rc_connect" ELSE "publish"
    /\ dropped' = FALSE
    /\ UNCHANGED <<loop_counter, temperature, i, session, subs, pubs, serviced>>
    /\ UNCHANGED hwVars
    /\ UNCHANGED dispVars
    /\ UNCHANGED callVars
    /\ UNCHANGED auxVars

\* ----------------------------------------------------------- mqtt_reconnect
\* mqttClient.connect(WiFi.getHostname()): one handshake, unless the client
\* is connected already; an accepted handshake starts a session with no
\* subscriptions.  The accepted branch enters the subscribe loop (i = 0), the
\* refused one goes to the backoff.
MqttConnect ==
    /\ pc = "rc_connect"
    /\ \E accept \in BOOLEAN :
         IF session = "Connected" \/ (accept /\ wifi)
         THEN /\ subs' = IF session = "Connected" THEN subs ELSE {}
              /\ session' = "Connected"
              /\ hs' = "ok"
              /\ subsSinceHs' = NoAttempts
              /\ asked' = {}
              /\ pc' = "rc_sub"
         ELSE /\ subs' = {}
              /\ session' = "Disconnected"
              /\ hs' = "failed"
              /\ subsSinceHs' = subsSinceHs
              /\ asked' = asked
              /\ pc' = "rc_delay"
    /\ clientId' = IF session = "Connected" THEN clientId ELSE hostname
    /\ i' = 0
    /\ waited' = 0
    /\ dropped' = FALSE
    /\ UNCHANGED <<loop_counter, temperature, drops, subsInCall, pubs, serviced>>
    /\ UNCHANGED hwVars
    /\ UNCHANGED dispVars
    /\ UNCHANGED <<hostname, slept, reported>>

\* a backoff of the loop interval instead of the connect interval
ReconnectDelay_Short ==
    /\ pc = "rc_delay"
    /\ waited' = waited + LOOP_INTERVAL
    /\ pc' = "rc_while"
    /\ UNCHANGED <<loop_counter, temperature, i, session, subs, dropped, drops,
                   hs, subsInCall, subsSinceHs, pubs, serviced>>
    /\ UNCHANGED hwVars
    /\ UNCHANGED dispVars
    /\ UNCHANGED auxVars

\* a backoff that services the inbound queue while it waits
ReconnectDelay_Services ==
    /\ pc = "rc_delay"
    /\ waited' = waited + MQTT_CONNECT_INTERVAL
    /\ serviced' = serviced + 1
    /\ pc' = "rc_while"
    /\ UNCHANGED <<loop_counter, temperature, i, session, subs, dropped, drops,
                   hs, subsInCall, subsSinceHs, pubs>>
    /\ UNCHANGED hwVars
    /\ UNCHANGED dispVars
    /\ UNCHANGED auxVars

\* delay(MQTT_CONNECT_INTERVAL)
ReconnectDelay ==
    /\ pc = "rc_delay"
    /\ waited' = waited + MQTT_CONNECT_INTERVAL
    /\ pc' = "rc_while"
    /\ UNCHANGED <<loop_counter, temperature, i, session, subs, dropped, drops,
                   hs, subsInCall, subsSinceHs, pubs, serviced>>
    /\ UNCHANGED hwVars
    /\ UNCHANGED dispVars
    /\ UNCHANGED auxVars

\* a subscribe loop that stops at the first failed subscribe
MqttSubscribe_AbortOnFail ==
    /\ pc = "rc_sub"
    /\ LET t == SzMqttTopic(aszRGBLedTopics(i)) IN
         /\ asked' = asked \cup {t}
         /\ subsInCall' = [subsInCall EXCEPT ![t] = @ + 1]
         /\ subsSinceHs' = [subsSinceHs EXCEPT ![t] = @ + 1]
         /\ \E ok \in BOOLEAN :
              /\ subs' = IF ok /\ session = "Connected" THEN subs \cup {t} ELSE subs
              /\ IF ok /\ session = "Connected" /\ i + 1 < RGBLedTopicCount
                 THEN i' = i + 1 /\ pc' = "rc_sub"
                 ELSE i' = 0 /\ pc' = "rc_while"
    /\ UNCHANGED <<loop_counter, temperature, session, dropped, drops, hs,
                   waited, pubs, serviced>>
    /\ UNCHANGED hwVars
    /\ UNCHANGED dispVars
    /\ UNCHANGED <<hostname, clientId, slept, reported>>

\* one pass of for(i=0; i<3; i++): mqttClient.subscribe(hostname + topic i);
\* false when the client is not connected or the broker refuses
MqttSubscribe ==
    /\ pc = "rc_sub"
    /\ LET t == SzMqttTopic(aszRGBLedTopics(i)) IN
         /\ asked' = asked \cup {t}
         /\ subsInCall' = [subsInCall EXCEPT ![t] = @ + 1]
         /\ subsSinceHs' = [subsSinceHs EXCEPT ![t] = @ + 1]
         /\ \E ok \in BOOLEAN :
              subs' = IF ok /\ session = "Connected" THEN subs \cup {t} ELSE subs
    /\ IF i + 1 < RGBLedTopicCount
       THEN i' = i + 1 /\ pc' = "rc_sub"
       ELSE i' = 0 /\ pc' = "rc_while"
    /\ UNCHANGED <<loop_counter, temperature, session, dropped, drops, hs,
                   waited, pubs, serviced>>
    /\ UNCHANGED hwVars
    /\ UNCHANGED dispVars
    /\ UNCHANGED <<hostname, clientId, slept, reported>>

\* a retry loop that takes a fresh sample when it returns
ReconnectWhile_Resample ==
    /\ pc = "rc_while"
    /\ pc' = IF session # "Connected" THEN "rc_connect" ELSE "publish"
    /\ IF session = "Connected"
       THEN \E t \in Temps : temperature' = t
       ELSE temperature' = temperature
    /\ dropped' = FALSE
    /\ UNCHANGED <<loop_counter, i, session, subs, pubs, serviced>>
    /\ UNCHANGED hwVars
    /\ UNCHANGED dispVars
    /\ UNCHANGED callVars
    /\ UNCHANGED auxVars

\* a retry loop that also backs off when an accepted session was lost
ReconnectWhile_BackoffOnDrop ==
    /\ pc = "rc_while"
    /\ pc' = IF session # "Connected" THEN "rc_connect" ELSE "publish"
    /\ waited' = IF session # "Connected" /\ hs = "ok"
                 THEN waited + MQTT_CONNECT_INTERVAL ELSE waited
    /\ dropped' = FALSE
    /\ UNCHANGED <<loop_counter, temperature, i, session, subs, pubs, serviced>>
    /\ UNCHANGED hwVars
    /\ UNCHANGED dispVars
    /\ UNCHANGED <<drops, hs, subsInCall, subsSinceHs>>
    /\ UNCHANGED auxVars

\* a retry loop that ends on the handshake's result instead of connected()
ReconnectWhile_ExitOnHandshake ==
    /\ pc = "rc_while"
    /\ pc' = IF hs # "ok" THEN "rc_connect" ELSE "publish"
    /\ dropped' = FALSE
    /\ UNCHANGED <<loop_counter, temperature, i, session, subs, pubs, serviced>>
    /\ UNCHANGED hwVars
    /\ UNCHANGED dispVars
    /\ UNCHANGED callVars
    /\ UNCHANGED auxVars

\* } while(!mqttClient.connected());
ReconnectWhile ==
    /\ pc = "rc_while"
    /\ pc' = IF session # "Connected" THEN "rc_connect" ELSE "publish"
    /\ dropped' = FALSE
    /\ UNCHANGED <<loop_counter, temperature, i, session, subs, pubs, serviced>>
    /\ UNCHANGED hwVars
    /\ UNCHANGED dispVars
    /\ UNCHANGED callVars
    /\ UNCHANGED auxVars

\* ------------------------------------------------------------- mqtt_publish
\* a publish on the bare suffix, without the hostname in front
PublishAttempt_BareSuffix(ok) ==
    [value   |-> temperature,
     topic   |-> <<NoHost, MQTT_PUB_TOPIC_TEMPERATURE>>,
     payload |-> EncodeTemperature(temperature),
     sess    |-> session,
     sent    |-> ok /\ session = "Connected"]

\* the call mqttClient.publish(szMqttTopic, szTemperature) and its result
PublishAttempt(ok) ==
    [value   |-> temperature,
     topic   |-> SzMqttTopic(MQTT_PUB_TOPIC_TEMPERATURE),
     payload |-> EncodeTemperature(temperature),
     sess    |-> session,
     sent    |-> ok /\ session = "Connected"]

\* a publish that is repeated until it succeeds
MqttPublish_Retry ==
    /\ pc = "publish"
    /\ \E ok \in BOOLEAN :
         /\ pubs' = Append(pubs, PublishAttempt(ok))
         /\ pc' = IF ok /\ session = "Connected" THEN "service" ELSE "publish"
    /\ UNCHANGED <<loop_counter, temperature, i, session, subs, dropped, serviced>>
    /\ UNCHANGED hwVars
    /\ UNCHANGED dispVars
    /\ UNCHANGED callVars
    /\ UNCHANGED auxVars

\* mqtt_publish(temperature): one mqttClient.publish, its result only reported
MqttPublish ==
    /\ pc = "publish"
    /\ \E ok \in BOOLEAN : pubs' = Append(pubs, PublishAttempt(ok))
    /\ pc' = "service"
    /\ UNCHANGED <<loop_counter, temperature, i, session, subs, dropped, serviced>>
    /\ UNCHANGED hwVars
    /\ UNCHANGED dispVars
    /\ UNCHANGED callVars
    /\ UNCHANGED auxVars

\* ---------------------------------------------------------- inbound service
\* mqttClient.loop(): when connected, at most one pending inbound message is
\* handed to the registered callback; a command topic only while subscribed
MqttLoop ==
    /\ pc = "service"
    /\ serviced' = serviced + 1
    /\ \/ /\ pc' = "count"
          /\ UNCHANGED dispVars
       \/ /\ session = "Connected"
          /\ callback
          /\ \E m \in Messages :
               /\ m.topic \in CommandTopics => m.topic \in subs
               /\ msg' = <<m>>
          /\ ledsBefore' = <<leds>>
          /\ serial' = serial
          /\ pc' = "callback"
    /\ UNCHANGED <<loop_counter, temperature, i, session, subs, dropped, pubs>>
    /\ UNCHANGED hwVars
    /\ UNCHANGED callVars
    /\ UNCHANGED auxVars

\* a handler that switches every channel on for a non-empty payload
CallbackLeds_DriveAll(topic, payload, length, cur) ==
    IF length > 0 THEN [c \in Channels |-> "LOW"] ELSE cur

\* a handler that drives the red pin from a command on the red topic
CallbackLeds_RouteRed(topic, payload, length, cur) ==
    IF topic = Topic(MQTT_SUB_TOPIC_RGB_LED_RED) /\ length = 1 /\ payload \in {<<48>>, <<49>>}
    THEN [cur EXCEPT !["Red"] = IF payload = <<49>> THEN "LOW" ELSE "HIGH"]
    ELSE cur

\* the pin levels mqtt_subscribe_callback leaves: it writes no pin
CallbackLeds(topic, payload, length, cur) == cur

\* a handler that answers a message by publishing
MqttSubscribeCallback_Publishes ==
    /\ pc = "callback"
    /\ serial' = EchoBytes(msg[1].payload, 0, Len(msg[1].payload))
    /\ leds' = leds
    /\ pubs' = Append(pubs, PublishAttempt(TRUE))
    /\ pc' = "count"
    /\ UNCHANGED <<loop_counter, temperature, i, session, subs, wifi, callback,
                   msg, ledsBefore, dropped, serviced>>
    /\ UNCHANGED callVars
    /\ UNCHANGED auxVars

\* mqtt_subscribe_callback(topic, payload, length): echo topic and payload
MqttSubscribeCallback ==
    /\ pc = "callback"
    /\ serial' = EchoBytes(msg[1].payload, 0, Len(msg[1].payload))
    /\ leds' = CallbackLeds(msg[1].topic, msg[1].payload, Len(msg[1].payload), leds)
    /\ pc' = "count"
    /\ UNCHANGED <<loop_counter, temperature, i, session, subs, wifi, callback,
                   msg, ledsBefore, dropped, pubs, serviced>>
    /\ UNCHANGED callVars
    /\ UNCHANGED auxVars

\* a counter reset with > in place of >=
LoopCount_OffByOne ==
    /\ pc = "count"
    /\ loop_counter' = IF loop_counter + 1 > LOOP_COUNTER_RESET_VALUE
                       THEN 0 ELSE loop_counter + 1
    /\ msg' = <<>>
    /\ ledsBefore' = <<>>
    /\ serial' = <<>>
    /\ pc' = "sleep"
    /\ UNCHANGED <<temperature, i, session, subs, dropped, pubs, serviced>>
    /\ UNCHANGED hwVars
    /\ UNCHANGED callVars
    /\ UNCHANGED auxVars

\* loop_counter++; if(loop_counter >= LOOP_COUNTER_RESET_VALUE) loop_counter = 0;
LoopCount ==
    /\ pc = "count"
    /\ loop_counter' = IF loop_counter + 1 >= LOOP_COUNTER_RESET_VALUE
                       THEN 0 ELSE loop_counter + 1
    /\ msg' = <<>>
    /\ ledsBefore' = <<>>
    /\ serial' = <<>>
    /\ pc' = "sleep"
    /\ UNCHANGED <<temperature, i, session, subs, dropped, pubs, serviced>>
    /\ UNCHANGED hwVars
    /\ UNCHANGED callVars
    /\ UNCHANGED auxVars

\* delay(LOOP_INTERVAL); loop() returns and is called again
LoopDelay ==
    /\ pc = "sleep"
    /\ pc' = "loop_top"
    /\ temperature' = NoTemp
    /\ i' = 0
    /\ drops' = 0
    /\ hs' = "none"
    /\ waited' = 0
    /\ subsInCall' = NoAttempts
    /\ subsSinceHs' = NoAttempts
    /\ pubs' = <<>>
    /\ serviced' = 0
    /\ UNCHANGED <<loop_counter, session, subs, dropped>>
    /\ UNCHANGED hwVars
    /\ UNCHANGED dispVars
    /\ asked' = {}
    /\ reported' = NoTemp
    /\ slept' = slept + LOOP_INTERVAL
    /\ UNCHANGED <<hostname, clientId>>

\* -------------------------------------------------------------- environment
\* the broker (or the network under it) ends the session
BrokerDrop ==
    /\ session = "Connected"
    /\ pc \in ReconnectPcs => drops < MaxDrops
    /\ session' = "Disconnected"
    /\ subs' = {}
    /\ dropped' = TRUE
    /\ drops' = IF pc \in ReconnectPcs THEN drops + 1 ELSE drops
    /\ UNCHANGED <<pc, loop_counter, temperature, i, hs, waited, subsInCall,
                   subsSinceHs, pubs, serviced>>
    /\ UNCHANGED hwVars
    /\ UNCHANGED dispVars
    /\ UNCHANGED auxVars

\* the link comes up after wifi_setup() gave up
LinkUp ==
    /\ pc \notin SetupPcs
    /\ ~wifi
    /\ wifi' = TRUE
    /\ UNCHANGED <<pc, loop_counter, temperature, i, session, subs, leds,
                   callback, dropped, pubs, serviced>>
    /\ UNCHANGED dispVars
    /\ UNCHANGED callVars
    /\ UNCHANGED auxVars

Next ==
    \/ GpioSetup
    \/ WifiSetup
    \/ MqttSetup
    \/ LoopTop
    \/ LoopCheck
    \/ MqttConnect
    \/ ReconnectDelay
    \/ MqttSubscribe
    \/ ReconnectWhile
    \/ MqttPublish
    \/ MqttLoop
    \/ MqttSubscribeCallback
    \/ LoopCount
    \/ LoopDelay
    \/ BrokerDrop
    \/ LinkUp

Spec == Init /\ [][Next]_vars

\* the steps of the sketch's one thread (Next without the environment)
SketchStep ==
    \/ GpioSetup
    \/ WifiSetup
    \/ MqttSetup
    \/ LoopTop
    \/ LoopCheck
    \/ MqttConnect
    \/ ReconnectDelay
    \/ MqttSubscribe
    \/ ReconnectWhile
    \/ MqttPublish
    \/ MqttLoop
    \/ MqttSubscribeCallback
    \/ LoopCount
    \/ LoopDelay

\* the broker accepts a handshake of a connected link
MqttConnectAccepted == MqttConnect /\ hs' = "ok"

\* The sketch's thread keeps running, the link comes up, and a broker that is
\* asked again and again accepts; BrokerDrop carries no fairness and is
\* limited to MaxDrops per call of mqtt_reconnect().
LiveSpec ==
    /\ Init
    /\ [][Next]_vars
    /\ WF_vars(SketchStep)
    /\ WF_vars(LinkUp)
    /\ SF_vars(MqttConnectAccepted)

TypeOK ==
    /\ pc \in SetupPcs \cup ReconnectPcs \cup
              {"loop_top", "check", "publish", "service", "callback", "count", "sleep"}
    /\ loop_counter \in 0..(LOOP_COUNTER_RESET_VALUE - 1)
    /\ temperature \in Temps \cup {NoTemp} \cup INT8_MIN..INT8_MAX
    /\ i \in 0..(RGBLedTopicCount - 1)
    /\ session \in {"Disconnected", "Connected"}
    /\ subs \subseteq CommandTopics
    /\ wifi \in BOOLEAN
    /\ callback \in BOOLEAN
    /\ Len(msg) <= 1
    /\ dropped \in BOOLEAN
    /\ drops \in 0..MaxDrops
    /\ hs \in {"none", "failed", "ok"}

\* ------------------------------------------- the encoding, on every int8_t
\* mqtt_publish(t) for each t of int8_t, with the session up or down
InitEnc ==
    /\ pc = "publish"
    /\ loop_counter = LOOP_COUNTER_ACTION_VALUE
    /\ temperature \in INT8_MIN..INT8_MAX
    /\ i = 0
    /\ session \in {"Disconnected", "Connected"}
    /\ subs = {}
    /\ wifi = TRUE
    /\ leds = [c \in Channels |-> "HIGH"]
    /\ callback = TRUE
    /\ msg = <<>>
    /\ ledsBefore = <<>>
    /\ serial = <<>>
    /\ dropped = (session = "Disconnected")
    /\ drops = 0
    /\ hs = "none"
    /\ waited = 0
    /\ subsInCall = NoAttempts
    /\ subsSinceHs = NoAttempts
    /\ pubs = <<>>
    /\ serviced = 0
    /\ hostname = WiFiGetHostname
    /\ clientId = WiFiGetHostname
    /\ asked = {}
    /\ slept = 0
    /\ reported = temperature

NextEnc == MqttPublish

SpecEnc == InitEnc /\ [][NextEnc]_vars

\* ------------------------------------------------------------------- claims
\* the decoder a subscriber applies to the payload: an optional '-', then
\* decimal digits
RECURSIVE ParseNat(_, _)
ParseNat(chars, acc) ==
    IF chars = <<>> \/ Head(chars) \notin 48..57 THEN acc
    ELSE ParseNat(Tail(chars), acc * 10 + (Head(chars) - 48))

ParseInt(chars) ==
    IF chars # <<>> /\ Head(chars) = 45 THEN 0 - ParseNat(Tail(chars), 0)
    ELSE ParseNat(chars, 0)

\* a command payload in the encoding ASCII "0" / "1", and the level it asks
\* of a low-active pin
IsCommand(payload) == payload \in {<<48>>, <<49>>}
CommandLevel(payload) == IF payload = <<49>> THEN "LOW" ELSE "HIGH"

TopicRed == Topic(MQTT_SUB_TOPIC_RGB_LED_RED)

\* C1 (as stated): whenever the sketch is about to issue a publish or a
\* subscribe, the broker session is Connected.
C1_CallsOnlyWhileConnected ==
    pc \in {"publish", "rc_sub"} => session = "Connected"

\* C1 (amended): a publish or a subscribe is issued only after the sketch saw
\* the session Connected (connected() true, or an accepted handshake), with no
\* failed handshake after that; the session is then Connected at the call
\* unless the broker dropped it after that look.
C1_CallsOnlyAfterSeenConnected ==
    /\ pc \in {"publish", "rc_sub"} => (session = "Connected" \/ dropped)
    /\ pc \in {"publish", "rc_sub"} => hs # "failed"
    /\ \A k \in 1..Len(pubs) : pubs[k].sess = "Connected" \/ dropped

C1_Witness ==
    /\ pubs # <<>>
    /\ hs = "ok"
    /\ pubs[1].sess = "Connected"

\* C2: the payload mqtt_publish hands over decodes back to the temperature it
\* was given, and holds all of the number's characters.
C2_PayloadRoundTrip ==
    \A k \in 1..Len(pubs) :
        /\ ParseInt(pubs[k].payload) = pubs[k].value
        /\ Len(pubs[k].payload) = Len(FormatInt(pubs[k].value))

\* C3 (as stated): when mqtt_reconnect() has returned, each command topic was
\* subscribed exactly once during the call.
C3_OncePerCall ==
    (pc = "publish" /\ hs # "none") => \A t \in CommandTopics : subsInCall[t] = 1

\* C3 (amended): after each accepted handshake every command topic is
\* subscribed exactly once, in order and whatever the other subscribes
\* returned, before the loop condition is evaluated and before the call
\* returns; a failed subscribe leaves the session as it is.
C3_OncePerHandshake ==
    /\ (pc \in {"rc_while", "publish"} /\ hs = "ok") =>
           \A t \in CommandTopics : subsSinceHs[t] = 1
    /\ (pc = "publish" /\ hs # "none") => hs = "ok"
    /\ pc = "rc_sub" =>
           \A k \in 0..(RGBLedTopicCount - 1) :
               subsSinceHs[Topic(aszRGBLedTopics(k))] = IF k < i THEN 1 ELSE 0
    /\ (pc \in {"rc_sub", "rc_while"} /\ hs = "ok" /\ ~dropped) => session = "Connected"

C3_Witness ==
    /\ pc = "publish"
    /\ hs = "ok"
    /\ drops = 0
    /\ session = "Connected"
    /\ subs # CommandTopics
    /\ subs # {}
    /\ \A t \in CommandTopics : subsInCall[t] = 1

\* C4: after a failed handshake the call does not return and nothing is
\* published until a handshake is accepted, and the next handshake comes
\* after exactly one wait of MQTT_CONNECT_INTERVAL.
C4_RetryWithBackoff ==
    /\ (pc = "rc_connect" /\ hs = "failed") => waited = MQTT_CONNECT_INTERVAL
    /\ hs = "failed" => (pc \in ReconnectPcs /\ pubs = <<>>)
    /\ (pc = "rc_while" /\ hs = "failed") => session = "Disconnected"

C4_Witness ==
    /\ pc = "rc_connect"
    /\ hs = "failed"
    /\ waited = MQTT_CONNECT_INTERVAL

\* C5: a paced pass ends with exactly one publish attempt, of the sample of
\* that pass, also when it had to reconnect; an unpaced pass publishes
\* nothing; mqtt_reconnect() returns only after an accepted handshake with
\* the session seen Connected.
C5_OnePublishPerPacedPass ==
    /\ (pc \in {"service", "callback", "count"} /\ loop_counter = LOOP_COUNTER_ACTION_VALUE) =>
           /\ Len(pubs) = 1
           /\ temperature # NoTemp
           /\ pubs[1].value = temperature
    /\ (pc \in {"service", "callback", "count"} /\ loop_counter # LOOP_COUNTER_ACTION_VALUE) =>
           pubs = <<>>
    /\ pc \in ReconnectPcs => pubs = <<>>
    /\ (pc = "publish" /\ hs # "none") => (hs = "ok" /\ (session = "Connected" \/ dropped))

C5_Witness ==
    /\ pc = "count"
    /\ loop_counter = LOOP_COUNTER_ACTION_VALUE
    /\ hs = "ok"
    /\ Len(pubs) = 1
    /\ pubs[1].value = temperature

\* C6: mqttClient.loop() runs exactly once in every iteration of loop(), after
\* the paced actions and before the counter update and the sleep.
C6_ServiceOncePerIteration ==
    /\ pc \in SetupPcs \cup ReconnectPcs \cup {"loop_top", "check", "publish", "service"} =>
           serviced = 0
    /\ pc \in {"callback", "count", "sleep"} => serviced = 1
    /\ (pc = "service" /\ loop_counter = LOOP_COUNTER_ACTION_VALUE) => Len(pubs) = 1

C6_Witness ==
    /\ pc = "sleep"
    /\ serviced = 1
    /\ pubs = <<>>
    /\ loop_counter > LOOP_COUNTER_ACTION_VALUE + 1

\* C7: a failed publish is not repeated and does not end the iteration: the
\* service call, the counter update and the sleep follow it; a pass that
\* reconnected publishes once whatever its subscribes returned.
C7_FailedPublishNotRetried ==
    /\ Len(pubs) <= 1
    /\ (pc \in {"service", "callback", "count", "sleep"} /\ hs = "ok") => Len(pubs) = 1
    /\ (pubs # <<>> /\ ~pubs[1].sent) => pc \in {"service", "callback", "count", "sleep"}
    /\ (pc = "sleep" /\ pubs # <<>> /\ ~pubs[1].sent) =>
           (serviced = 1 /\ loop_counter = LOOP_COUNTER_ACTION_VALUE + 1)

C7_Witness ==
    /\ pc = "sleep"
    /\ pubs # <<>>
    /\ ~pubs[1].sent
    /\ pubs[1].sess = "Connected"
    /\ serviced = 1

\* C8: after the dispatch of a valid command on the Red topic the Red pin has
\* the commanded level and the Green and Blue pins are as before.
C8_RedCommandRouted ==
    (pc = "count" /\ msg # <<>> /\ msg[1].topic = TopicRed /\ IsCommand(msg[1].payload)) =>
        /\ leds["Red"] = CommandLevel(msg[1].payload)
        /\ leds["Green"] = ledsBefore[1]["Green"]
        /\ leds["Blue"] = ledsBefore[1]["Blue"]

\* C9: after the dispatch of a message on an unrecognised topic, or with a
\* malformed payload of any length, the handler has returned (having echoed
\* exactly the payload's bytes) and every pin is as before.
C9_IgnoredMessagesChangeNothing ==
    (pc = "count" /\ msg # <<>>
        /\ (msg[1].topic \notin CommandTopics \/ ~IsCommand(msg[1].payload))) =>
        /\ leds = ledsBefore[1]
        /\ serial = msg[1].payload

C9_Witness ==
    /\ pc = "count"
    /\ msg # <<>>
    /\ msg[1].topic \in CommandTopics
    /\ msg[1].payload = <<>>
    /\ leds = ledsBefore[1]

\* C10: the step of the dispatch handler issues no connect, subscribe or
\* publish and leaves the session and the subscription set as they were.
C10_DispatchIssuesNoClientCall ==
    [][(pc = "callback" /\ pc' # "callback") =>
           /\ session' = session
           /\ subs' = subs
           /\ pubs' = pubs
           /\ hs' = hs
           /\ subsInCall' = subsInCall
           /\ pc' = "count"]_vars

C10_Witness ==
    /\ pc = "count"
    /\ msg # <<>>
    /\ session = "Connected"
    /\ subs = CommandTopics
    /\ msg[1].topic \in subs

\* C11: no handshake, subscribe or publish is attempted before wifi_setup()
\* has returned, and the session name and every topic are formed from the
\* hostname that is available from then on.
C11_NetworkStepBeforeBroker ==
    /\ pc \in {"setup_gpio", "setup_wifi"} =>
           (hs = "none" /\ clientId = NoHost /\ asked = {} /\ pubs = <<>>
               /\ session = "Disconnected")
    /\ pc \in ReconnectPcs \cup {"publish"} => hostname # NoHost
    /\ hs # "none" => clientId # NoHost
    /\ \A t \in asked : t[1] # NoHost
    /\ \A k \in 1..Len(pubs) : pubs[k].topic[1] # NoHost

C11_Witness ==
    /\ wifi
    /\ pubs # <<>>
    /\ pubs[1].sent
    /\ pubs[1].topic[1] = WiFiGetHostname
    /\ clientId = WiFiGetHostname

\* C12: no outcome halts the program: in every reachable state the sketch has
\* a next step, also after wifi_setup() failed.
C12_NoFatalPath ==
    /\ ENABLED SketchStep
    /\ (pc = "setup_mqtt" /\ ~wifi) => ENABLED MqttSetup

C12_Witness ==
    /\ ~wifi
    /\ pc = "rc_delay"
    /\ hs = "failed"

\* C13: the publish topic is hostname + "/Temperature", the topics subscribed
\* after an accepted handshake are exactly hostname + the three RGB-Led
\* suffixes, and that hostname is the session name of the handshake.
C13_TopicsFromNodeIdentity ==
    LET SubTopics == { <<clientId, aszRGBLedTopics(k)>> : k \in 0..(RGBLedTopicCount - 1) } IN
    /\ \A k \in 1..Len(pubs) :
           /\ pubs[k].topic = <<clientId, MQTT_PUB_TOPIC_TEMPERATURE>>
           /\ pubs[k].topic[1] = hostname
    /\ asked \subseteq SubTopics
    /\ subs \subseteq SubTopics
    /\ (pc \in {"rc_while", "publish"} /\ hs = "ok") => asked = SubTopics
    /\ hs # "none" => clientId = hostname

C13_Witness ==
    /\ pc = "service"
    /\ hs = "ok"
    /\ pubs # <<>>
    /\ pubs[1].topic = Topic(MQTT_PUB_TOPIC_TEMPERATURE)
    /\ asked = CommandTopics
    /\ clientId = WiFiGetHostname

\* C14: loop_counter stays in 0..239, goes up by one per iteration and wraps
\* to 0 (the sleep time since the last paced pass is the counter times
\* LOOP_INTERVAL); the paced actions run exactly in the iterations where it
\* is 0: the first one after setup, then every 240 x 250 ms = 60000 ms.
C14_PhaseCounter ==
    /\ loop_counter \in 0..(LOOP_COUNTER_RESET_VALUE - 1)
    /\ pc \in SetupPcs => (loop_counter = LOOP_COUNTER_ACTION_VALUE /\ slept = 0)
    /\ pc \in ReconnectPcs \cup {"check", "publish"} =>
           loop_counter = LOOP_COUNTER_ACTION_VALUE
    /\ pc \in {"service", "callback", "count"} =>
           /\ (loop_counter = LOOP_COUNTER_ACTION_VALUE) <=> (temperature # NoTemp)
           /\ (loop_counter = LOOP_COUNTER_ACTION_VALUE) <=> (reported # NoTemp)
           /\ (loop_counter = LOOP_COUNTER_ACTION_VALUE) <=> (pubs # <<>>)
    /\ (pc = "loop_top" /\ loop_counter # LOOP_COUNTER_ACTION_VALUE) =>
           slept = loop_counter * LOOP_INTERVAL
    /\ (pc = "loop_top" /\ loop_counter = LOOP_COUNTER_ACTION_VALUE) =>
           /\ slept \in {0, LOOP_COUNTER_RESET_VALUE * LOOP_INTERVAL}
           /\ LOOP_COUNTER_RESET_VALUE * LOOP_INTERVAL = 60000
    /\ pc = "sleep" =>
           slept = ((loop_counter + LOOP_COUNTER_RESET_VALUE - 1) % LOOP_COUNTER_RESET_VALUE)
                       * LOOP_INTERVAL

C14_Witness ==
    /\ pc = "loop_top"
    /\ loop_counter = LOOP_COUNTER_ACTION_VALUE
    /\ slept = 60000

\* C15: what a paced pass publishes is the value it sampled and reported at
\* its start, also after a blocking reconnect; no sample outlives its pass.
C15_SampleOfSamePass ==
    /\ \A k \in 1..Len(pubs) :
           /\ pubs[k].value = temperature
           /\ pubs[k].value = reported
    /\ pc \in ReconnectPcs \cup {"check", "publish"} =>
           (temperature # NoTemp /\ temperature = reported)
    /\ pc = "loop_top" => (temperature = NoTemp /\ reported = NoTemp /\ pubs = <<>>)

C15_Witness ==
    /\ pc = "service"
    /\ hs = "ok"
    /\ drops > 0
    /\ Len(pubs) = 1
    /\ pubs[1].value = reported
    /\ reported = INT8_MAX

\* C16: with a broker that eventually accepts a handshake and then keeps
\* the session up, every call of mqtt_reconnect() returns, and the step that
\* returns is taken with the session Connected.
C16_ReconnectReturnsConnected ==
    /\ (pc \in ReconnectPcs) ~> (pc = "publish")
    /\ [][(pc \in ReconnectPcs /\ pc' \notin ReconnectPcs) =>
              (pc' = "publish" /\ session = "Connected" /\ hs = "ok")]_vars

C16_Witness ==
    /\ pc = "publish"
    /\ hs = "ok"
    /\ drops = MaxDrops
    /\ session = "Connected"
    /\ loop_counter = LOOP_COUNTER_ACTION_VALUE

\* C17: from the entry of mqtt_reconnect() to its return nothing else runs:
\* no inbound service call, no message handed to the handler, no publish and
\* no change of loop_counter; the only way out is the return to the publish.
C17_ReconnectNotInterrupted ==
    /\ [](pc \in ReconnectPcs =>
              (serviced = 0 /\ msg = <<>> /\ serial = <<>> /\ pubs = <<>>
                  /\ loop_counter = LOOP_COUNTER_ACTION_VALUE))
    /\ [][(pc \in ReconnectPcs) =>
              (pc' \in ReconnectPcs \cup {"publish"}
                  /\ loop_counter' = loop_counter /\ serviced' = serviced
                  /\ msg' = msg /\ serial' = serial /\ pubs' = pubs
                  /\ leds' = leds)]_vars

C17_Witness ==
    /\ pc = "rc_while"
    /\ hs = "failed"
    /\ waited = MQTT_CONNECT_INTERVAL
    /\ session = "Disconnected"
    /\ serviced = 0
    /\ pubs = <<>>

\* C18 (as stated): in one call of mqtt_reconnect() every handshake after the
\* first comes after a wait of MQTT_CONNECT_INTERVAL, also when the handshake
\* before it was accepted and the session was lost before the loop condition.
C18_BackoffBeforeEveryRetry ==
    (pc = "rc_connect" /\ hs # "none") => waited = MQTT_CONNECT_INTERVAL

\* C18 (amended): a handshake that follows a refused handshake comes after
\* exactly one wait of MQTT_CONNECT_INTERVAL; a handshake that follows an
\* accepted one whose session was lost comes with no wait at all.
C18_BackoffAfterRefusalOnly ==
    /\ (pc = "rc_connect" /\ hs = "failed") => waited = MQTT_CONNECT_INTERVAL
    /\ (pc = "rc_connect" /\ hs = "ok") =>
           (waited = 0 /\ drops > 0 /\ session = "Disconnected")
    /\ pc = "rc_delay" => (hs = "failed" /\ waited = 0)
    /\ pc = "rc_sub" => (hs = "ok" /\ waited = 0)

C18_Witness ==
    /\ pc = "rc_connect"
    /\ hs = "ok"
    /\ waited = 0
    /\ \A t \in CommandTopics : subsSinceHs[t] = 1

\* C19: once gpio_setup() has driven the red, green and blue pins HIGH, they
\* stay HIGH in every state, whatever messages arrive.
C19_IndicatorsStayOff ==
    pc # "setup_gpio" => \A c \in Channels : leds[c] = "HIGH"

C19_Witness ==
    /\ pc = "count"
    /\ msg # <<>>
    /\ msg[1].topic = TopicRed
    /\ msg[1].payload = <<49>>
    /\ serial = <<49>>
    /\ \A c \in Channels : leds[c] = "HIGH"

====
